---- MODULE Spec2Model ----
(***************************************************************************)
(* Model of the continuous-distribution core of statrs:                    *)
(*   src/src/distribution/beta.rs        (Beta)                            *)
(*   src/src/distribution/triangular.rs  (Triangular)                      *)
(*                                                                         *)
(* A distribution value is built once by a validating constructor and is   *)
(* then evaluated by capability calls, on the value itself or (Beta is     *)
(* Copy) on a copy of it.  The state is the constructor's arguments and    *)
(* result, the copy, plus the last capability call, its receiver, its      *)
(* input and its returned value.  Every capability takes &self and runs    *)
(* without a write to shared memory, so calls of concurrent callers are    *)
(* modelled as atomic steps taken in any order.                            *)
(*                                                                         *)
(* f64 values are modelled as records [k, n, d, u, rn, rd]:                *)
(*   k = "nan" | "inf" | "ninf"       the IEEE specials                    *)
(*   k = "fin"   the number n/d (d > 0, lowest terms) displaced by u units *)
(*               in the last place: u # 0 is a neighbouring float, closer  *)
(*               to n/d than any other rational of the model.  For n/d # 0 *)
(*               the unit is one step of the bit pattern; around zero it   *)
(*               is 2^-60, inside f64::EPSILON and far above underflow     *)
(*   k = "surd"  the number n/d + s * sqrt(|rn|/rd), s the sign of rn, the *)
(*               radicand |rn|/rd in lowest terms and not a square: what   *)
(*               f64::sqrt returns for such a radicand, and what adding a  *)
(*               rational to it or scaling it gives                        *)
(*   k = "irr"   a finite, non-zero float the model keeps no value for (a  *)
(*               logarithm, a product of unrelated roots, ...); n is its   *)
(*               sign (1, -1, or 0 when the model does not determine it)   *)
(* rn = 0 and rd = 1 unless k = "surd".                                    *)
(* Arithmetic follows IEEE 754 on the specials (0/0 = NaN, x/0 = +-inf,    *)
(* inf - inf = NaN, comparisons with NaN are false).  Magnitudes stay far  *)
(* below f64::MAX, so no operation of the model overflows; zero is         *)
(* unsigned (every zero divisor in the modelled code is +0).               *)
(***************************************************************************)
EXTENDS Integers, Sequences, FiniteSets, TLC

VARIABLES
    args,   \* the arguments given to the constructor
    dist,   \* the constructor's result: Ok(value) or Err(BadParams)
    copy,   \* a copy taken of the constructed value, if any
    call,   \* the last capability called
    on,     \* its receiver: "value" or "copy"
    arg,    \* its input x
    path,   \* the branch of the callee that produced the result
    ret     \* the value it returned

vars == <<args, dist, copy, call, on, arg, path, ret>>

----------------------------------------------------------------------------
(* Bounds of the model *)

\* x inputs lie up to MaxOff units in the last place around 0, 1/2 and 1
\* (more than the ulps_eq tolerance)
MaxOff == 5

\* Triangular parameters are k/2 for k in -TriK..TriK
TriK == 2

\* uniform draws are k/DrawDen for k in 0..DrawDen-1
DrawDen == 4

----------------------------------------------------------------------------
(* f64 *)

Abs(i) == IF i < 0 THEN -i ELSE i

Sgn(i) == IF i < 0 THEN -1 ELSE IF i > 0 THEN 1 ELSE 0

RECURSIVE Gcd(_, _)
Gcd(a, b) == IF b = 0 THEN a ELSE Gcd(b, a % b)

NAN == [k |-> "nan", n |-> 0, d |-> 1, u |-> 0, rn |-> 0, rd |-> 1]

INF == [k |-> "inf", n |-> 0, d |-> 1, u |-> 0, rn |-> 0, rd |-> 1]

NEG_INF == [k |-> "ninf", n |-> 0, d |-> 1, u |-> 0, rn |-> 0, rd |-> 1]

\* the float n/d
Q(n, d) ==
    LET s == IF d < 0 THEN -1 ELSE 1
        g == Gcd(Abs(n), Abs(d))
    IN  [k |-> "fin", n |-> (s * n) \div g, d |-> (s * d) \div g, u |-> 0,
         rn |-> 0, rd |-> 1]

\* the float u units in the last place away from n/d
Near(n, d, u) == [Q(n, d) EXCEPT !.u = u]

\* a finite non-zero float without an exact rational in the model
Irr(s) == [k |-> "irr", n |-> s, d |-> 1, u |-> 0, rn |-> 0, rd |-> 1]

Zero == Q(0, 1)

One == Q(1, 1)

Two == Q(2, 1)

is_nan(a) == a.k = "nan"

is_infinite(a) == a.k \in {"inf", "ninf"}

IsFinite(a) == a.k \in {"fin", "surd", "irr"}

IsExact(a) == a.k = "fin" /\ a.u = 0

\* the integer square root of i when it is a perfect square with its root
\* in lo..hi, else -1 (by bisection, comparing m with i / m)
RECURSIVE RootIn(_, _, _)
RootIn(i, lo, hi) ==
    IF lo > hi THEN -1
    ELSE LET m == (lo + hi) \div 2
         IN  IF m = 0 THEN (IF i = 0 THEN 0 ELSE RootIn(i, m + 1, hi))
             ELSE IF i \div m = m /\ i % m = 0 THEN m
             ELSE IF m <= i \div m THEN RootIn(i, m + 1, hi)
             ELSE RootIn(i, lo, m - 1)

\* the integer square root of i when i is a perfect square, else -1
Root(i) == RootIn(i, 0, i)

\* the rational part n/d of a "fin" or "surd" value
Rat(a) == Q(a.n, a.d)

\* the radicand of a "surd" value
Rad(a) == Q(Abs(a.rn), a.rd)

\* p + s * sqrt(r) for rationals p, r (r >= 0) and s in {1, -1}
Surd(p, s, r) ==
    IF r.n = 0 THEN p
    ELSE IF Root(r.n) >= 0 /\ Root(r.d) >= 0
    THEN Q(p.n * Root(r.d) + s * Root(r.n) * p.d, p.d * Root(r.d))
    ELSE [k |-> "surd", n |-> p.n, d |-> p.d, u |-> 0, rn |-> s * r.n, rd |-> r.d]

\* sign of p + s * sqrt(r) for rationals p, r (r > 0) and s in {1, -1}
SignRatSqrt(p, s, r) ==
    IF p.n = 0 \/ Sgn(p.n) = s THEN s
    ELSE IF r.n * p.d * p.d < p.n * p.n * r.d THEN Sgn(p.n)
    ELSE IF r.n * p.d * p.d > p.n * p.n * r.d THEN s
    ELSE 0

\* sign of p + s * sqrt(r) + t * sqrt(q) for rationals p, r, q (r, q > 0)
\* and s, t in {1, -1}
SignRatSqrt2(p, s, r, t, q) ==
    LET x == IF s = t THEN s ELSE s * Sgn(r.n * q.d - q.n * r.d)
        \* p^2 - r - q, to compare p^2 with (s sqrt r + t sqrt q)^2
        e == Q(p.n * p.n * r.d * q.d - r.n * p.d * p.d * q.d - q.n * p.d * p.d * r.d,
               p.d * p.d * r.d * q.d)
        m == SignRatSqrt(e, -(s * t), Q(4 * r.n * q.n, r.d * q.d))
    IN  IF x = 0 THEN Sgn(p.n)
        ELSE IF p.n = 0 \/ Sgn(p.n) = x THEN x
        ELSE IF m > 0 THEN Sgn(p.n)
        ELSE IF m < 0 THEN x
        ELSE 0

\* sign of a float that is not NaN: -1, 0, 1 (0 for zero and for an
\* undetermined "irr")
Sign(a) ==
    CASE a.k = "inf" -> 1
      [] a.k = "ninf" -> -1
      [] a.k = "irr" -> a.n
      [] a.k = "fin" -> IF a.n # 0 THEN Sgn(a.n) ELSE Sgn(a.u)
      [] a.k = "surd" -> SignRatSqrt(Rat(a), Sgn(a.rn), Rad(a))
      [] OTHER -> 0

IsZero(a) == a.k = "fin" /\ a.n = 0 /\ a.u = 0

\* sign of a - b for "fin" and "surd" values, at least one a "surd" (a float
\* displaced from a rational compares like the rational: no root of the
\* model lies between them)
SignDiff(a, b) ==
    LET p == Q(a.n * b.d - b.n * a.d, a.d * b.d)
    IN  IF a.k = "surd" /\ b.k = "surd"
        THEN SignRatSqrt2(p, Sgn(a.rn), Rad(a), -Sgn(b.rn), Rad(b))
        ELSE IF a.k = "surd" THEN SignRatSqrt(p, Sgn(a.rn), Rad(a))
        ELSE SignRatSqrt(p, -Sgn(b.rn), Rad(b))

\* a < b  (false when either is NaN)
FLt(a, b) ==
    CASE is_nan(a) \/ is_nan(b) -> FALSE
      [] a.k = "ninf" -> b.k # "ninf"
      [] b.k = "inf" -> a.k # "inf"
      [] a.k = "inf" \/ b.k = "ninf" -> FALSE
      [] a.k = "fin" /\ b.k = "fin" ->
            \/ a.n * b.d < b.n * a.d
            \/ a.n * b.d = b.n * a.d /\ a.u < b.u
      [] a.k \in {"fin", "surd"} /\ b.k \in {"fin", "surd"} -> SignDiff(a, b) < 0
      [] OTHER -> Sign(a) < Sign(b)

\* a == b  (false when either is NaN)
FEq(a, b) ==
    CASE is_nan(a) \/ is_nan(b) -> FALSE
      [] a.k = "irr" \/ b.k = "irr" -> FALSE
      [] OTHER -> a = b

FLe(a, b) == FLt(a, b) \/ FEq(a, b)

FGt(a, b) == FLt(b, a)

FGe(a, b) == FLe(b, a)

FNeg(a) ==
    CASE a.k = "nan" -> NAN
      [] a.k = "inf" -> NEG_INF
      [] a.k = "ninf" -> INF
      [] a.k = "irr" -> Irr(-a.n)
      [] OTHER -> [a EXCEPT !.n = -a.n, !.u = -a.u, !.rn = -a.rn]

\* sign of the sum of two finite floats when it is not exact
SumSign(a, b) ==
    IF a.k = "fin" /\ b.k = "fin"
    THEN IF a.n * b.d + b.n * a.d # 0
         THEN Sgn(a.n * b.d + b.n * a.d)
         ELSE Sgn(a.u + b.u)
    ELSE IF a.k \in {"fin", "surd"} /\ b.k \in {"fin", "surd"}
    THEN SignDiff(a, FNeg(b))
    ELSE IF Sign(a) = Sign(b) \/ IsZero(b) THEN Sign(a)
    ELSE IF IsZero(a) THEN Sign(b)
    ELSE 0

\* exact values: a rational, or a rational plus a root
IsAlgebraic(a) == IsExact(a) \/ a.k = "surd"

FAdd(a, b) ==
    CASE is_nan(a) \/ is_nan(b) -> NAN
      [] is_infinite(a) /\ is_infinite(b) -> IF a.k = b.k THEN a ELSE NAN
      [] is_infinite(a) -> a
      [] is_infinite(b) -> b
      [] IsExact(a) /\ IsExact(b) -> Q(a.n * b.d + b.n * a.d, a.d * b.d)
      [] IsZero(a) -> b
      [] IsZero(b) -> a
      [] a.k = "fin" /\ b.k = "fin" /\ a.n * b.d + b.n * a.d = 0 /\ a.u + b.u = 0 -> Zero
      [] IsExact(a) /\ b.k = "surd" ->
            Surd(Q(a.n * b.d + b.n * a.d, a.d * b.d), Sgn(b.rn), Rad(b))
      [] a.k = "surd" /\ IsExact(b) ->
            Surd(Q(a.n * b.d + b.n * a.d, a.d * b.d), Sgn(a.rn), Rad(a))
      [] a.k = "surd" /\ b.k = "surd" /\ Rad(a) = Rad(b) ->
            IF Sgn(a.rn) # Sgn(b.rn)
            THEN Q(a.n * b.d + b.n * a.d, a.d * b.d)
            ELSE Surd(Q(a.n * b.d + b.n * a.d, a.d * b.d), Sgn(a.rn),
                      Q(4 * Abs(a.rn), a.rd))
      [] OTHER -> Irr(SumSign(a, b))

FSub(a, b) == FAdd(a, FNeg(b))

FMul(a, b) ==
    CASE is_nan(a) \/ is_nan(b) -> NAN
      [] is_infinite(a) \/ is_infinite(b) ->
            IF IsZero(a) \/ IsZero(b) THEN NAN
            ELSE IF Sign(a) * Sign(b) < 0 THEN NEG_INF ELSE INF
      [] IsZero(a) \/ IsZero(b) -> Zero
      [] IsExact(a) /\ IsExact(b) -> Q(a.n * b.n, a.d * b.d)
      [] IsExact(a) /\ b.k = "surd" ->
            Surd(Q(a.n * b.n, a.d * b.d), Sgn(a.n) * Sgn(b.rn),
                 Q(Abs(b.rn) * a.n * a.n, b.rd * a.d * a.d))
      [] a.k = "surd" /\ IsExact(b) ->
            Surd(Q(a.n * b.n, a.d * b.d), Sgn(b.n) * Sgn(a.rn),
                 Q(Abs(a.rn) * b.n * b.n, a.rd * b.d * b.d))
      [] a.k = "surd" /\ b.k = "surd" /\ a.n = 0 /\ b.n = 0 ->
            Surd(Zero, Sgn(a.rn) * Sgn(b.rn), Q(Abs(a.rn) * Abs(b.rn), a.rd * b.rd))
      [] OTHER -> Irr(Sign(a) * Sign(b))

\* 1 / b for an exact non-zero rational or a pure root
Recip(b) ==
    IF b.k = "fin" THEN Q(b.d, b.n)
    ELSE Surd(Zero, Sgn(b.rn), Q(b.rd, Abs(b.rn)))

FDiv(a, b) ==
    CASE is_nan(a) \/ is_nan(b) -> NAN
      [] is_infinite(a) /\ is_infinite(b) -> NAN
      [] is_infinite(a) -> IF Sign(a) * Sign(b) < 0 THEN NEG_INF ELSE INF
      [] is_infinite(b) -> Zero
      [] IsZero(b) ->
            IF IsZero(a) THEN NAN
            ELSE IF Sign(a) < 0 THEN NEG_INF ELSE INF
      [] IsZero(a) -> Zero
      [] IsExact(a) /\ IsExact(b) -> Q(a.n * b.d, a.d * b.n)
      [] IsAlgebraic(a) /\ (IsExact(b) \/ (b.k = "surd" /\ b.n = 0)) ->
            FMul(a, Recip(b))
      [] OTHER -> Irr(Sign(a) * Sign(b))

\* f64::sqrt
FSqrt(a) ==
    CASE is_nan(a) \/ a.k = "ninf" -> NAN
      [] a.k = "inf" -> INF
      [] IsZero(a) -> Zero
      [] Sign(a) < 0 -> NAN
      [] IsExact(a) -> Surd(Zero, 1, a)
      [] OTHER -> Irr(1)

\* f64::ln
FLn(a) ==
    CASE is_nan(a) \/ a.k = "ninf" -> NAN
      [] a.k = "inf" -> INF
      [] IsZero(a) -> NEG_INF
      [] Sign(a) < 0 -> NAN
      [] a = One -> Zero
      [] a.k \in {"fin", "surd"} -> Irr(IF FLt(a, One) THEN -1 ELSE 1)
      [] OTHER -> Irr(0)

\* f64::exp
FExp(a) ==
    CASE is_nan(a) -> NAN
      [] a.k = "inf" -> INF
      [] a.k = "ninf" -> Zero
      [] IsZero(a) -> One
      [] OTHER -> Irr(1)

----------------------------------------------------------------------------
(* Result and Option values *)

\* A Result or Option is a record [tag, v]; v is a record in every case, so
\* that any two of them can be compared.
Ok(v) == [tag |-> "Ok", v |-> v]

\* Err(StatsError::e)
Err(e) == [tag |-> "Err", v |-> [ty |-> e]]

Some(v) == [tag |-> "Some", v |-> v]

\* Option::None (v is unused)
None == [tag |-> "None", v |-> NAN]

\* a plain f64 return value
F64(v) == [tag |-> "f64", v |-> v]

\* what a callee hands back: the value and the branch that produced it
Out(r, p) == [ret |-> r, path |-> p]

----------------------------------------------------------------------------
(* Near-equality helpers and special functions used by Beta *)

\* approx: the default max_ulps of ulps_eq!
DEFAULT_MAX_ULPS == 4

\* ulps_eq!(a, b) with the default epsilon (f64::EPSILON) and max_ulps:
\* |a - b| <= epsilon, or same sign and at most max_ulps bit-pattern steps
\* apart.  Distinct rationals of the model are further apart than both.
ulps_eq(a, b) ==
    CASE is_nan(a) \/ is_nan(b) -> FALSE
      [] is_infinite(a) \/ is_infinite(b) -> a = b
      [] a.k = "fin" /\ b.k = "fin" ->
            /\ a.n = b.n /\ a.d = b.d
            /\ a.n = 0 \/ Abs(a.u - b.u) <= DEFAULT_MAX_ULPS
      [] OTHER -> FALSE

\* crate::is_zero: ulps_eq!(x, 0.0, max_ulps = 0), true when |x| <= epsilon
is_zero(x) == x.k = "fin" /\ x.n = 0

RECURSIVE Factorial(_)
Factorial(i) == IF i <= 1 THEN 1 ELSE i * Factorial(i - 1)

\* largest integer whose gamma the model computes exactly
MaxExactGamma == 8

\* function::gamma::gamma at a positive argument
gamma(v) ==
    CASE is_nan(v) -> NAN
      [] v.k = "inf" -> INF
      [] IsExact(v) /\ v.d = 1 /\ v.n >= 1 /\ v.n <= MaxExactGamma -> Q(Factorial(v.n - 1), 1)
      [] OTHER -> Irr(1)

\* function::gamma::ln_gamma at a positive argument: zero at 1 and 2,
\* negative between them, positive elsewhere
ln_gamma(v) ==
    CASE is_nan(v) -> NAN
      [] v.k = "inf" -> INF
      [] v = One \/ v = Two -> Zero
      [] v.k = "fin" -> Irr(IF FLt(One, v) /\ FLt(v, Two) THEN -1 ELSE 1)
      [] OTHER -> Irr(0)

\* function::gamma::digamma at a positive argument: negative up to 1,
\* positive from 2 on (its root lies between)
digamma(v) ==
    CASE is_nan(v) -> NAN
      [] v.k = "inf" -> INF
      [] v.k = "fin" /\ FLe(v, One) -> Irr(-1)
      [] v.k = "fin" /\ FGe(v, Two) -> Irr(1)
      [] OTHER -> Irr(0)

\* function::beta::ln_beta
ln_beta(a, b) == FSub(FAdd(ln_gamma(a), ln_gamma(b)), ln_gamma(FAdd(a, b)))

\* function::beta::beta_reg for finite positive a, b and x in [0, 1):
\* I_0 = 0 and 0 < I_x < 1 inside
beta_reg(a, b, x) == IF IsZero(x) THEN Zero ELSE Irr(1)

RECURSIVE IntPow(_, _)
IntPow(b, e) == IF e = 0 THEN 1 ELSE b * IntPow(b, e - 1)

\* f64::powf(x, e) for x >= 0
powf(x, e) ==
    CASE IsZero(e) -> One
      [] x = One -> One
      [] is_nan(x) \/ is_nan(e) -> NAN
      [] IsZero(x) -> IF Sign(e) < 0 THEN INF ELSE Zero
      [] x.k = "inf" -> IF Sign(e) < 0 THEN Zero ELSE INF
      [] e.k = "inf" -> IF FLt(x, One) THEN Zero ELSE INF
      [] e.k = "ninf" -> IF FLt(x, One) THEN INF ELSE Zero
      [] IsExact(x) /\ IsExact(e) /\ e.d = 1 ->
            IF e.n > 0 THEN Q(IntPow(x.n, e.n), IntPow(x.d, e.n))
            ELSE Q(IntPow(x.d, -e.n), IntPow(x.n, -e.n))
      [] IsExact(x) /\ IsExact(e) /\ e.d = 2 /\ e.n > 0 /\ IsExact(FSqrt(x)) ->
            Q(IntPow(FSqrt(x).n, e.n), IntPow(FSqrt(x).d, e.n))
      [] OTHER -> Irr(1)

----------------------------------------------------------------------------
(* Beta: src/src/distribution/beta.rs *)

Half == Q(1, 2)

\* pdf takes the log-space path above this shape
LogSpaceThreshold == 80

\* Beta::new with the shape test written < instead of <=
Beta_new_AcceptsZero(shape_a, shape_b) ==
    IF is_nan(shape_a) \/ is_nan(shape_b) THEN Err("BadParams")
    ELSE IF FLt(shape_a, Zero) \/ FLt(shape_b, Zero) THEN Err("BadParams")
    ELSE Ok([ty |-> "Beta", shape_a |-> shape_a, shape_b |-> shape_b])

Beta_new(shape_a, shape_b) ==
    LET nan == is_nan(shape_a) \/ is_nan(shape_b)
    IN  IF nan THEN Err("BadParams")
        ELSE IF FLe(shape_a, Zero) \/ FLe(shape_b, Zero) THEN Err("BadParams")
        ELSE Ok([ty |-> "Beta", shape_a |-> shape_a, shape_b |-> shape_b])

Beta_shape_a(self) == Out(F64(self.shape_a), "-")

Beta_shape_b(self) == Out(F64(self.shape_b), "-")

Beta_min(self) == Out(F64(Zero), "-")

Beta_max(self) == Out(F64(One), "-")

\* Beta::cdf with the midpoint step written <= instead of <
Beta_cdf_StepAfterHalf(self, x) ==
    IF FLt(x, Zero) THEN Out(F64(Zero), "below")
    ELSE IF FGe(x, One) THEN Out(F64(One), "above")
    ELSE IF is_infinite(self.shape_a) /\ is_infinite(self.shape_b)
         THEN IF FLe(x, Half) THEN Out(F64(Zero), "both_inf")
              ELSE Out(F64(One), "both_inf")
    ELSE IF is_infinite(self.shape_a)
         THEN IF FLt(x, One) THEN Out(F64(Zero), "a_inf")
              ELSE Out(F64(One), "a_inf")
    ELSE IF is_infinite(self.shape_b) THEN Out(F64(One), "b_inf")
    ELSE IF ulps_eq(self.shape_a, One) /\ ulps_eq(self.shape_b, One)
         THEN Out(F64(x), "uniform")
    ELSE Out(F64(beta_reg(self.shape_a, self.shape_b, x)), "general")

Beta_cdf(self, x) ==
    IF FLt(x, Zero) THEN Out(F64(Zero), "below")
    ELSE IF FGe(x, One) THEN Out(F64(One), "above")
    ELSE IF is_infinite(self.shape_a) /\ is_infinite(self.shape_b)
         THEN IF FLt(x, Half) THEN Out(F64(Zero), "both_inf")
              ELSE Out(F64(One), "both_inf")
    ELSE IF is_infinite(self.shape_a)
         THEN IF FLt(x, One) THEN Out(F64(Zero), "a_inf")
              ELSE Out(F64(One), "a_inf")
    ELSE IF is_infinite(self.shape_b) THEN Out(F64(One), "b_inf")
    ELSE IF ulps_eq(self.shape_a, One) /\ ulps_eq(self.shape_b, One)
         THEN Out(F64(x), "uniform")
    ELSE Out(F64(beta_reg(self.shape_a, self.shape_b, x)), "general")

\* Beta::mean without the branch for an infinite shape_a
Beta_mean_NoInfiniteA(self) ==
    IF is_infinite(self.shape_a) /\ is_infinite(self.shape_b)
    THEN Out(None, "both_inf")
    ELSE Out(Some(FDiv(self.shape_a, FAdd(self.shape_a, self.shape_b))), "general")

Beta_mean(self) ==
    IF is_infinite(self.shape_a) /\ is_infinite(self.shape_b)
    THEN Out(None, "both_inf")
    ELSE IF is_infinite(self.shape_a) THEN Out(Some(One), "a_inf")
    ELSE Out(Some(FDiv(self.shape_a, FAdd(self.shape_a, self.shape_b))), "general")

Beta_variance(self) ==
    LET ab == FAdd(self.shape_a, self.shape_b)
    IN  IF is_infinite(self.shape_a) /\ is_infinite(self.shape_b)
        THEN Out(None, "both_inf")
        ELSE IF is_infinite(self.shape_a) \/ is_infinite(self.shape_b)
        THEN Out(Some(Zero), "one_inf")
        ELSE Out(Some(FDiv(FMul(self.shape_a, self.shape_b),
                           FMul(FMul(ab, ab), FAdd(ab, One)))), "general")

Beta_entropy(self) ==
    IF is_infinite(self.shape_a) \/ is_infinite(self.shape_b)
    THEN Out(None, "one_inf")
    ELSE Out(Some(
            FAdd(FSub(FSub(ln_beta(self.shape_a, self.shape_b),
                           FMul(FSub(self.shape_a, One), digamma(self.shape_a))),
                      FMul(FSub(self.shape_b, One), digamma(self.shape_b))),
                 FMul(FSub(FAdd(self.shape_a, self.shape_b), Two),
                      digamma(FAdd(self.shape_a, self.shape_b))))), "general")

Beta_skewness(self) ==
    LET ab == FAdd(self.shape_a, self.shape_b)
    IN  IF is_infinite(self.shape_a) /\ is_infinite(self.shape_b)
        THEN Out(Some(Zero), "both_inf")
        ELSE IF is_infinite(self.shape_a) THEN Out(Some(FNeg(Two)), "a_inf")
        ELSE IF is_infinite(self.shape_b) THEN Out(Some(Two), "b_inf")
        ELSE Out(Some(FDiv(
                FMul(FMul(Two, FSub(self.shape_b, self.shape_a)), FSqrt(FAdd(ab, One))),
                FMul(FAdd(ab, Two), FSqrt(FMul(self.shape_a, self.shape_b))))), "general")

\* Beta::mode without the both-infinite test
Beta_mode_NoBothInfinite(self) ==
    IF FLe(self.shape_a, One) \/ FLe(self.shape_b, One)
    THEN Out(None, "undefined")
    ELSE IF is_infinite(self.shape_a) THEN Out(Some(One), "a_inf")
    ELSE Out(Some(FDiv(FSub(self.shape_a, One),
                       FSub(FAdd(self.shape_a, self.shape_b), Two))), "general")

Beta_mode(self) ==
    IF \/ FLe(self.shape_a, One)
       \/ FLe(self.shape_b, One)
       \/ is_infinite(self.shape_a) /\ is_infinite(self.shape_b)
    THEN Out(None, "undefined")
    ELSE IF is_infinite(self.shape_a) THEN Out(Some(One), "a_inf")
    ELSE Out(Some(FDiv(FSub(self.shape_a, One),
                       FSub(FAdd(self.shape_a, self.shape_b), Two))), "general")

\* the lower power term of the general case of Beta::ln_pdf
Beta_ln_pdf_bb(self, x) ==
    IF ulps_eq(self.shape_a, One) /\ is_zero(x) THEN Zero
    ELSE IF is_zero(x) THEN NEG_INF
    ELSE FMul(FSub(self.shape_a, One), FLn(x))

\* the upper power term with its removable-singularity test on shape_a
\* instead of shape_b
Beta_ln_pdf_cc_TestsShapeA(self, x) ==
    IF ulps_eq(self.shape_a, One) /\ ulps_eq(x, One) THEN Zero
    ELSE IF ulps_eq(x, One) THEN NEG_INF
    ELSE FMul(FSub(self.shape_b, One), FLn(FSub(One, x)))

\* the upper power term of the general case of Beta::ln_pdf
Beta_ln_pdf_cc(self, x) ==
    IF ulps_eq(self.shape_b, One) /\ ulps_eq(x, One) THEN Zero
    ELSE IF ulps_eq(x, One) THEN NEG_INF
    ELSE FMul(FSub(self.shape_b, One), FLn(FSub(One, x)))

\* the general case of Beta::ln_pdf (both shapes finite, not both 1)
Beta_ln_pdf_general(self, x) ==
    LET aa == FSub(FSub(ln_gamma(FAdd(self.shape_a, self.shape_b)),
                        ln_gamma(self.shape_a)),
                   ln_gamma(self.shape_b))
        bb == Beta_ln_pdf_bb(self, x)
        cc == Beta_ln_pdf_cc(self, x)
    IN  FAdd(FAdd(aa, bb), cc)

\* Beta::ln_pdf with the two single-infinite branches pointing at the wrong
\* endpoints
Beta_ln_pdf_EndpointsSwapped(self, x) ==
    IF FLt(x, Zero) \/ FGt(x, One) THEN Out(F64(NEG_INF), "domain")
    ELSE IF is_infinite(self.shape_a) /\ is_infinite(self.shape_b)
         THEN Out(F64(IF ulps_eq(x, Half) THEN INF ELSE NEG_INF), "both_inf")
    ELSE IF is_infinite(self.shape_a)
         THEN Out(F64(IF is_zero(x) THEN INF ELSE NEG_INF), "a_inf")
    ELSE IF is_infinite(self.shape_b)
         THEN Out(F64(IF ulps_eq(x, One) THEN INF ELSE NEG_INF), "b_inf")
    ELSE IF ulps_eq(self.shape_a, One) /\ ulps_eq(self.shape_b, One)
         THEN Out(F64(Zero), "uniform")
    ELSE Out(F64(Beta_ln_pdf_general(self, x)), "general")

Beta_ln_pdf(self, x) ==
    IF FLt(x, Zero) \/ FGt(x, One) THEN Out(F64(NEG_INF), "domain")
    ELSE IF is_infinite(self.shape_a) /\ is_infinite(self.shape_b)
         THEN Out(F64(IF ulps_eq(x, Half) THEN INF ELSE NEG_INF), "both_inf")
    ELSE IF is_infinite(self.shape_a)
         THEN Out(F64(IF ulps_eq(x, One) THEN INF ELSE NEG_INF), "a_inf")
    ELSE IF is_infinite(self.shape_b)
         THEN Out(F64(IF is_zero(x) THEN INF ELSE NEG_INF), "b_inf")
    ELSE IF ulps_eq(self.shape_a, One) /\ ulps_eq(self.shape_b, One)
         THEN Out(F64(Zero), "uniform")
    ELSE Out(F64(Beta_ln_pdf_general(self, x)), "general")

\* the general case of Beta::pdf: through ln_pdf above the threshold, the
\* direct formula otherwise
Beta_pdf_general(self, x) ==
    IF \/ FGt(self.shape_a, Q(LogSpaceThreshold, 1))
       \/ FGt(self.shape_b, Q(LogSpaceThreshold, 1))
    THEN Out(F64(FExp(Beta_ln_pdf(self, x).ret.v)), "log_space")
    ELSE LET bb == FDiv(gamma(FAdd(self.shape_a, self.shape_b)),
                        FMul(gamma(self.shape_a), gamma(self.shape_b)))
         IN  Out(F64(FMul(FMul(bb, powf(x, FSub(self.shape_a, One))),
                          powf(FSub(One, x), FSub(self.shape_b, One)))), "direct")

\* Beta::pdf with the upper half of the domain test left out
Beta_pdf_NoUpperBound(self, x) ==
    IF FLt(x, Zero) THEN Out(F64(Zero), "domain")
    ELSE IF is_infinite(self.shape_a) /\ is_infinite(self.shape_b)
         THEN Out(F64(IF ulps_eq(x, Half) THEN INF ELSE Zero), "both_inf")
    ELSE IF is_infinite(self.shape_a)
         THEN Out(F64(IF ulps_eq(x, One) THEN INF ELSE Zero), "a_inf")
    ELSE IF is_infinite(self.shape_b)
         THEN Out(F64(IF is_zero(x) THEN INF ELSE Zero), "b_inf")
    ELSE IF ulps_eq(self.shape_a, One) /\ ulps_eq(self.shape_b, One)
         THEN Out(F64(One), "uniform")
    ELSE Beta_pdf_general(self, x)

Beta_pdf(self, x) ==
    IF FLt(x, Zero) \/ FGt(x, One) THEN Out(F64(Zero), "domain")
    ELSE IF is_infinite(self.shape_a) /\ is_infinite(self.shape_b)
         THEN Out(F64(IF ulps_eq(x, Half) THEN INF ELSE Zero), "both_inf")
    ELSE IF is_infinite(self.shape_a)
         THEN Out(F64(IF ulps_eq(x, One) THEN INF ELSE Zero), "a_inf")
    ELSE IF is_infinite(self.shape_b)
         THEN Out(F64(IF is_zero(x) THEN INF ELSE Zero), "b_inf")
    ELSE IF ulps_eq(self.shape_a, One) /\ ulps_eq(self.shape_b, One)
         THEN Out(F64(One), "uniform")
    ELSE Beta_pdf_general(self, x)

----------------------------------------------------------------------------
(* Triangular: src/src/distribution/triangular.rs *)

\* std::f64::consts::SQRT_2
SQRT_2 == Irr(1)

\* Triangular::new without the max == min test
Triangular_new_NoWidthTest(min, max, mode) ==
    IF is_infinite(min) \/ is_infinite(max) \/ is_infinite(mode) THEN Err("BadParams")
    ELSE IF is_nan(min) \/ is_nan(max) \/ is_nan(mode) THEN Err("BadParams")
    ELSE IF FLt(max, mode) \/ FLt(mode, min) THEN Err("BadParams")
    ELSE Ok([ty |-> "Triangular", min |-> min, max |-> max, mode |-> mode])

Triangular_new(min, max, mode) ==
    IF is_infinite(min) \/ is_infinite(max) \/ is_infinite(mode) THEN Err("BadParams")
    ELSE IF is_nan(min) \/ is_nan(max) \/ is_nan(mode) THEN Err("BadParams")
    ELSE IF FLt(max, mode) \/ FLt(mode, min) THEN Err("BadParams")
    ELSE IF FEq(max, min) THEN Err("BadParams")
    ELSE Ok([ty |-> "Triangular", min |-> min, max |-> max, mode |-> mode])

Triangular_min(self) == Out(F64(self.min), "-")

Triangular_max(self) == Out(F64(self.max), "-")

Triangular_mode(self) == Out(F64(self.mode), "-")

Triangular_mean(self) ==
    Out(F64(FDiv(FAdd(FAdd(self.min, self.max), self.mode), Q(3, 1))), "-")

\* a*a + b*b + c*c - a*b - a*c - b*c
SumSq(a, b, c) ==
    FSub(FSub(FSub(FAdd(FAdd(FMul(a, a), FMul(b, b)), FMul(c, c)),
                   FMul(a, b)),
              FMul(a, c)),
         FMul(b, c))

Triangular_variance(self) ==
    Out(F64(FDiv(SumSq(self.min, self.max, self.mode), Q(18, 1))), "-")

Triangular_std_dev(self) == Out(F64(FSqrt(Triangular_variance(self).ret.v)), "-")

Triangular_entropy(self) ==
    Out(F64(FAdd(Half, FLn(FDiv(FSub(self.max, self.min), Two)))), "-")

Triangular_skewness(self) ==
    LET a == self.min
        b == self.max
        c == self.mode
        q == FMul(FMul(FMul(SQRT_2, FSub(FAdd(a, b), FMul(Two, c))),
                       FSub(FSub(FMul(Two, a), b), c)),
                  FAdd(FSub(a, FMul(Two, b)), c))
        d == FMul(Q(5, 1), powf(SumSq(a, b, c), FDiv(Q(3, 1), Two)))
    IN  Out(F64(FDiv(q, d)), "-")

\* Triangular::median with the case split the other way round
Triangular_median_SplitReversed(self) ==
    LET a == self.min
        b == self.max
        c == self.mode
    IN  IF FLt(c, FDiv(FAdd(a, b), Two))
        THEN Out(Some(FAdd(a, FSqrt(FDiv(FMul(FSub(b, a), FSub(c, a)), Two)))), "rising")
        ELSE Out(Some(FSub(b, FSqrt(FDiv(FMul(FSub(b, a), FSub(b, c)), Two)))), "falling")

Triangular_median(self) ==
    LET a == self.min
        b == self.max
        c == self.mode
    IN  IF FGe(c, FDiv(FAdd(a, b), Two))
        THEN Out(Some(FAdd(a, FSqrt(FDiv(FMul(FSub(b, a), FSub(c, a)), Two)))), "rising")
        ELSE Out(Some(FSub(b, FSqrt(FDiv(FMul(FSub(b, a), FSub(b, c)), Two)))), "falling")

Triangular_cdf(self, x) ==
    LET a == self.min
        b == self.max
        c == self.mode
    IN  IF FLt(x, a) THEN Out(Ok(Zero), "below")
        ELSE IF FLe(a, x) /\ FLe(x, c)
             THEN Out(Ok(FDiv(FMul(FSub(x, a), FSub(x, a)),
                              FMul(FSub(b, a), FSub(c, a)))), "rising")
        ELSE IF FLt(c, x) /\ FLe(x, b)
             THEN Out(Ok(FSub(One, FDiv(FMul(FSub(b, x), FSub(b, x)),
                                        FMul(FSub(b, a), FSub(b, c))))), "falling")
        ELSE Out(Ok(One), "above")

Triangular_pdf(self, x) ==
    LET a == self.min
        b == self.max
        c == self.mode
    IN  IF FLe(a, x) /\ FLe(x, c)
        THEN Out(F64(FDiv(FMul(Two, FSub(x, a)), FMul(FSub(b, a), FSub(c, a)))), "rising")
        ELSE IF FLt(c, x) /\ FLe(x, b)
             THEN Out(F64(FDiv(FMul(Two, FSub(b, x)), FMul(FSub(b, a), FSub(b, c)))), "falling")
        ELSE Out(F64(Zero), "outside")

Triangular_ln_pdf(self, x) ==
    Out(F64(FLn(Triangular_pdf(self, x).ret.v)), Triangular_pdf(self, x).path)

\* sample_unchecked, f being the uniform draw r.next_f64()
sample_unchecked(f, min, max, mode) ==
    IF FLt(f, FDiv(FSub(mode, min), FSub(max, min)))
    THEN Out(F64(FAdd(min, FSqrt(FMul(FMul(f, FSub(max, min)), FSub(mode, min))))),
             "rising")
    ELSE Out(F64(FSub(max, FSqrt(FMul(FMul(FSub(One, f), FSub(max, min)),
                                      FSub(max, mode))))),
             "falling")

\* Sample::sample for Triangular
Triangular_sample(self, f) == sample_unchecked(f, self.min, self.max, self.mode)

----------------------------------------------------------------------------
(* Inputs *)

Specials == {NAN, INF, NEG_INF}

\* displacements in the last place: none, the last step inside the ulps_eq
\* tolerance, and MaxOff steps (outside it)
Offsets == {-MaxOff, -DEFAULT_MAX_ULPS, 0, DEFAULT_MAX_ULPS, MaxOff}

\* shape arguments offered to Beta::new: invalid ones, 1/2, the floats at
\* and around 1 (inside and outside the ulps_eq tolerance), 2, a shape above
\* the log-space threshold, and the specials
ShapeVals ==
    {Q(-1, 1), Zero, Half, Two, Q(LogSpaceThreshold + 1, 1)}
        \cup {Near(1, 1, u) : u \in {0, 1, MaxOff}}
        \cup Specials

\* x inputs offered to Beta: outside [0, 1], the floats at and around 0, 1/2
\* and 1, interior points, and the specials
BetaXs ==
    {Q(-1, 1), Q(1, 4), Q(3, 4), Two}
        \cup {Near(0, 1, u) : u \in Offsets}
        \cup {Near(1, 2, u) : u \in Offsets}
        \cup {Near(1, 1, u) : u \in Offsets}
        \cup Specials

\* arguments offered to Triangular::new
TriVals == {Q(k, 2) : k \in (-TriK) .. TriK} \cup Specials

\* x inputs offered to Triangular: quarters reaching past every bound
TriXs == {Q(k, 4) : k \in (-2 * TriK - 2) .. (2 * TriK + 2)} \cup Specials

\* what r.next_f64() can return: floats of [0, 1)
Draws == {Q(k, DrawDen) : k \in 0 .. (DrawDen - 1)}

----------------------------------------------------------------------------
(* The state machine *)

\* nothing constructed yet
NoValue == [tag |-> "none", v |-> [ty |-> "-"]]

\* nothing returned yet (v is unused)
NoReturn == [tag |-> "none", v |-> NAN]

Init ==
    /\ args = <<>>
    /\ dist = NoValue
    /\ copy = NoValue
    /\ call = "-"
    /\ on = "-"
    /\ arg = NAN
    /\ path = "-"
    /\ ret = NoReturn

\* Beta::new(shape_a, shape_b)
BetaNew ==
    /\ dist.tag = "none"
    /\ \E a \in ShapeVals, b \in ShapeVals :
        /\ args' = <<a, b>>
        /\ dist' = Beta_new(a, b)
    /\ call' = "new"
    /\ UNCHANGED <<copy, on, arg, path, ret>>

\* Triangular::new(min, max, mode)
TriangularNew ==
    /\ dist.tag = "none"
    /\ \E min \in TriVals, max \in TriVals, mode \in TriVals :
        /\ args' = <<min, max, mode>>
        /\ dist' = Triangular_new(min, max, mode)
    /\ call' = "new"
    /\ UNCHANGED <<copy, on, arg, path, ret>>

IsBeta == dist.tag = "Ok" /\ dist.v.ty = "Beta"

IsTriangular == dist.tag = "Ok" /\ dist.v.ty = "Triangular"

\* #[derive(Copy, Clone)] on Beta: a copy is taken of the value
BetaCopy ==
    /\ IsBeta
    /\ copy' = dist
    /\ UNCHANGED <<args, dist, call, on, arg, path, ret>>

\* the receivers a Beta call can be made on
Receivers == {"value"} \cup (IF copy.tag = "Ok" THEN {"copy"} ELSE {})

\* the value behind receiver r
Self(r) == IF r = "copy" THEN copy.v ELSE dist.v

\* a capability call without input taking the value away, as a self
\* receiver would
Call0_TakesSelf(r, name, out) ==
    /\ call' = name
    /\ on' = r
    /\ arg' = NAN
    /\ path' = out.path
    /\ ret' = out.ret
    /\ dist' = NoValue
    /\ UNCHANGED <<args, copy>>

\* a capability call without input: &self is only read
Call0(r, name, out) ==
    /\ call' = name
    /\ on' = r
    /\ arg' = NAN
    /\ path' = out.path
    /\ ret' = out.ret
    /\ UNCHANGED <<args, dist, copy>>

\* a capability call with input x
Call1(r, name, x, out) ==
    /\ call' = name
    /\ on' = r
    /\ arg' = x
    /\ path' = out.path
    /\ ret' = out.ret
    /\ UNCHANGED <<args, dist, copy>>

BetaShapeA == IsBeta /\ \E r \in Receivers : Call0(r, "shape_a", Beta_shape_a(Self(r)))

BetaShapeB == IsBeta /\ \E r \in Receivers : Call0(r, "shape_b", Beta_shape_b(Self(r)))

BetaMin == IsBeta /\ \E r \in Receivers : Call0(r, "min", Beta_min(Self(r)))

BetaMax == IsBeta /\ \E r \in Receivers : Call0(r, "max", Beta_max(Self(r)))

BetaMean == IsBeta /\ \E r \in Receivers : Call0(r, "mean", Beta_mean(Self(r)))

BetaVariance == IsBeta /\ \E r \in Receivers : Call0(r, "variance", Beta_variance(Self(r)))

BetaEntropy == IsBeta /\ \E r \in Receivers : Call0(r, "entropy", Beta_entropy(Self(r)))

BetaSkewness == IsBeta /\ \E r \in Receivers : Call0(r, "skewness", Beta_skewness(Self(r)))

BetaMode == IsBeta /\ \E r \in Receivers : Call0(r, "mode", Beta_mode(Self(r)))

BetaPdf ==
    IsBeta /\ \E r \in Receivers, x \in BetaXs : Call1(r, "pdf", x, Beta_pdf(Self(r), x))

BetaLnPdf ==
    IsBeta /\ \E r \in Receivers, x \in BetaXs : Call1(r, "ln_pdf", x, Beta_ln_pdf(Self(r), x))

BetaCdf ==
    IsBeta /\ \E r \in Receivers, x \in BetaXs : Call1(r, "cdf", x, Beta_cdf(Self(r), x))

TriangularMin == IsTriangular /\ Call0("value", "min", Triangular_min(dist.v))

TriangularMax == IsTriangular /\ Call0("value", "max", Triangular_max(dist.v))

TriangularMode == IsTriangular /\ Call0("value", "mode", Triangular_mode(dist.v))

TriangularMean == IsTriangular /\ Call0("value", "mean", Triangular_mean(dist.v))

TriangularVariance == IsTriangular /\ Call0("value", "variance", Triangular_variance(dist.v))

TriangularStdDev == IsTriangular /\ Call0("value", "std_dev", Triangular_std_dev(dist.v))

TriangularEntropy == IsTriangular /\ Call0("value", "entropy", Triangular_entropy(dist.v))

TriangularSkewness == IsTriangular /\ Call0("value", "skewness", Triangular_skewness(dist.v))

TriangularMedian == IsTriangular /\ Call0("value", "median", Triangular_median(dist.v))

TriangularPdf ==
    IsTriangular /\ \E x \in TriXs : Call1("value", "pdf", x, Triangular_pdf(dist.v, x))

TriangularLnPdf ==
    IsTriangular /\ \E x \in TriXs : Call1("value", "ln_pdf", x, Triangular_ln_pdf(dist.v, x))

TriangularCdf ==
    IsTriangular /\ \E x \in TriXs : Call1("value", "cdf", x, Triangular_cdf(dist.v, x))

\* Triangular::sample: one draw from the generator, kept in arg
TriangularSample ==
    IsTriangular /\ \E f \in Draws : Call1("value", "sample", f, Triangular_sample(dist.v, f))

Next ==
    \/ BetaNew
    \/ TriangularNew
    \/ BetaCopy
    \/ BetaShapeA
    \/ BetaShapeB
    \/ BetaMin
    \/ BetaMax
    \/ BetaMean
    \/ BetaVariance
    \/ BetaEntropy
    \/ BetaSkewness
    \/ BetaMode
    \/ BetaPdf
    \/ BetaLnPdf
    \/ BetaCdf
    \/ TriangularMin
    \/ TriangularMax
    \/ TriangularMode
    \/ TriangularMean
    \/ TriangularVariance
    \/ TriangularStdDev
    \/ TriangularEntropy
    \/ TriangularSkewness
    \/ TriangularMedian
    \/ TriangularPdf
    \/ TriangularLnPdf
    \/ TriangularCdf
    \/ TriangularSample

Spec == Init /\ [][Next]_vars

----------------------------------------------------------------------------
(* Vocabulary of the properties *)

\* the constructor has run
Constructed == dist.tag # "none"

BetaBuilt == Constructed /\ Len(args) = 2

TriangularBuilt == Constructed /\ Len(args) = 3

\* a is a number <= 0 (or -inf)
NonPositive(a) ==
    \/ a.k = "ninf"
    \/ a.k = "fin" /\ (a.n < 0 \/ (a.n = 0 /\ a.u <= 0))

\* x is the float q or one at most m steps in the last place away from it
Within(x, q, m) == x.k = "fin" /\ x.n = q.n /\ x.d = q.d /\ Abs(x.u) <= m

\* a return value that is a defined number: not NaN
Defined(v) == v.k # "nan"

----------------------------------------------------------------------------
(* C1 *)

\* C1: Beta::new(shape_a, shape_b) returns the invalid-parameters error
\* exactly when a shape is NaN or <= 0, and otherwise a Beta whose shape_a()
\* and shape_b() are the given arguments (+infinity included); an error
\* leaves no value behind, so nothing is ever called on it.
C1_BetaNew ==
    BetaBuilt =>
        LET bad == \/ is_nan(args[1]) \/ is_nan(args[2])
                   \/ NonPositive(args[1]) \/ NonPositive(args[2])
        IN  /\ bad <=> dist.tag = "Err"
            /\ dist.tag = "Err" => dist = Err("BadParams") /\ call = "new" /\ ret = NoReturn
            /\ ~bad =>
                /\ dist.tag = "Ok"
                /\ dist.v.shape_a = args[1]
                /\ dist.v.shape_b = args[2]
                /\ call = "shape_a" => ret = F64(args[1])
                /\ call = "shape_b" => ret = F64(args[2])

\* an infinite shape was accepted and read back
C1_Witness ==
    /\ BetaBuilt
    /\ dist.tag = "Ok"
    /\ args[1] = INF
    /\ call = "shape_a"
    /\ ret = F64(INF)

----------------------------------------------------------------------------
(* C2 *)

\* C2: Triangular::new(min, max, mode) returns the invalid-parameters error
\* exactly when an argument is NaN or infinite, or max < mode, or mode < min,
\* or max == min; otherwise min(), max(), mode() return the given arguments,
\* so every constructed value has min <= mode <= max and min < max.
C2_TriangularNew ==
    TriangularBuilt =>
        LET min == args[1]
            max == args[2]
            mode == args[3]
            bad == \/ \E i \in 1..3 : args[i].k # "fin"
                   \/ FLt(max, mode)
                   \/ FLt(mode, min)
                   \/ max = min
        IN  /\ bad <=> dist.tag = "Err"
            /\ dist.tag = "Err" => dist = Err("BadParams") /\ call = "new" /\ ret = NoReturn
            /\ ~bad =>
                /\ dist.tag = "Ok"
                /\ FLe(dist.v.min, dist.v.mode)
                /\ FLe(dist.v.mode, dist.v.max)
                /\ FLt(dist.v.min, dist.v.max)
                /\ call = "min" => ret = F64(min)
                /\ call = "max" => ret = F64(max)
                /\ call = "mode" => ret = F64(mode)

\* a triple with mode == min was accepted and its mode read back
C2_Witness ==
    /\ TriangularBuilt
    /\ dist.tag = "Ok"
    /\ args[3] = args[1]
    /\ call = "mode"
    /\ ret = F64(args[1])

----------------------------------------------------------------------------
(* C3 *)

\* C3: once a Triangular is constructed nothing is undefined: for every
\* accepted triple and every finite x, pdf(x), ln_pdf(x) and cdf(x) are
\* defined numbers (never NaN), cdf returns Ok, and mean, variance, std_dev,
\* entropy, skewness and median are defined numbers, variance being
\* strictly positive.
C3_TriangularAlwaysDefined ==
    IsTriangular =>
        /\ call \in {"pdf", "ln_pdf", "cdf"} /\ arg.k = "fin" => Defined(ret.v)
        /\ call = "cdf" => ret.tag = "Ok"
        /\ call \in {"mean", "variance", "std_dev", "entropy", "skewness"} =>
                ret.tag = "f64" /\ IsFinite(ret.v)
        /\ call = "median" => ret.tag = "Some" /\ IsFinite(ret.v)
        /\ call = "variance" => FGt(ret.v, Zero)

----------------------------------------------------------------------------
(* C4 *)

\* x lies outside [min(), max()] of the constructed distribution
OutsideDomain(x) ==
    \/ IsBeta /\ (FLt(x, Beta_min(dist.v).ret.v) \/ FGt(x, Beta_max(dist.v).ret.v))
    \/ IsTriangular /\ (FLt(x, dist.v.min) \/ FGt(x, dist.v.max))

\* C4: for every constructed distribution and every x outside its domain
\* (x < 0 or x > 1 for Beta, whatever the shapes; x < min or x > max for
\* Triangular), pdf(x) = 0 and ln_pdf(x) = -infinity.
C4_ZeroOutsideDomain ==
    Constructed /\ dist.tag = "Ok" /\ OutsideDomain(arg) =>
        /\ call = "pdf" => ret = F64(Zero)
        /\ call = "ln_pdf" => ret = F64(NEG_INF)

\* a float above 1, near-equal to 1, was given to pdf of a Beta whose mass
\* sits at 1
C4_Witness ==
    /\ IsBeta
    /\ dist.v.shape_a = INF
    /\ dist.v.shape_b # INF
    /\ call = "pdf"
    /\ arg = Near(1, 1, DEFAULT_MAX_ULPS)
    /\ ret = F64(Zero)

----------------------------------------------------------------------------
(* C5 *)

\* C5: for every valid Triangular triple cdf is total and clamped:
\* cdf(x) = 0 for every x < min, cdf(min) = 0, cdf(max) = 1, and cdf(x) = 1
\* for every x > max.
C5_TriangularCdfClamped ==
    IsTriangular /\ call = "cdf" =>
        /\ FLt(arg, dist.v.min) => ret = Ok(Zero)
        /\ arg = dist.v.min => ret = Ok(Zero)
        /\ arg = dist.v.max => ret = Ok(One)
        /\ FGt(arg, dist.v.max) => ret = Ok(One)

----------------------------------------------------------------------------
(* C6 *)

\* C6: for every valid Triangular triple cdf is non-decreasing over all real
\* inputs, with values always in [0, 1], and continuous at the breakpoint:
\* at x = mode it gives (mode - min) / (max - min).
C6_TriangularCdfMonotone ==
    IsTriangular /\ call = "cdf" /\ arg.k = "fin" =>
        /\ FLe(Zero, ret.v) /\ FLe(ret.v, One)
        /\ \A x2 \in TriXs :
              x2.k = "fin" /\ FLe(arg, x2) =>
                  FLe(ret.v, Triangular_cdf(dist.v, x2).ret.v)
        /\ arg = dist.v.mode =>
              ret.v = FDiv(FSub(dist.v.mode, dist.v.min), FSub(dist.v.max, dist.v.min))

----------------------------------------------------------------------------
(* C7 *)

InUnit(x) == FLe(Zero, x) /\ FLe(x, One)

\* the regime a branch of pdf or ln_pdf belongs to
Regime(p) == IF p \in {"log_space", "direct"} THEN "general" ELSE p

\* |x| <= f64::EPSILON
AtZero(x) == x.k = "fin" /\ x.n = 0

\* what pdf (hi/lo = +inf/0) or ln_pdf (hi/lo = +inf/-inf) returns in the
\* degenerate regimes, its point mass being where AtPoint says
DegenerateValue(atPoint) ==
    IF atPoint THEN F64(INF)
    ELSE IF call = "pdf" THEN F64(Zero) ELSE F64(NEG_INF)

\* C7 as stated: pdf and ln_pdf dispatch domain-violation, both-infinite,
\* one-infinite, both-equal-1, general in that order, and for x in [0,1]
\* give +infinity exactly at x = 0.5 (both shapes infinite), at x = 1 (only
\* shape_a infinite), at x = 0 (only shape_b infinite) and 0 / -infinity at
\* every other x; pdf = 1 and ln_pdf = 0 when both shapes equal 1; pdf and
\* ln_pdf select the same regime.
C7_ExactPointMass ==
    IsBeta /\ call \in {"pdf", "ln_pdf"} =>
        LET a == dist.v.shape_a
            b == dist.v.shape_b
        IN  /\ InUnit(arg) =>
                /\ a = INF /\ b = INF => ret = DegenerateValue(arg = Half)
                /\ a = INF /\ b # INF => ret = DegenerateValue(arg = One)
                /\ a # INF /\ b = INF => ret = DegenerateValue(arg = Zero)
                /\ a = One /\ b = One => ret = F64(IF call = "pdf" THEN One ELSE Zero)
            /\ ~is_nan(arg) =>
                Regime(path) =
                    IF FLt(arg, Zero) \/ FGt(arg, One) THEN "domain"
                    ELSE IF a = INF /\ b = INF THEN "both_inf"
                    ELSE IF a = INF THEN "a_inf"
                    ELSE IF b = INF THEN "b_inf"
                    ELSE IF a = One /\ b = One THEN "uniform"
                    ELSE "general"
            /\ Regime(Beta_pdf(dist.v, arg).path) = Regime(Beta_ln_pdf(dist.v, arg).path)

\* C7 as amended: the same, with every equality a near-equality: +infinity
\* at every x within DEFAULT_MAX_ULPS steps of 0.5 (resp. of 1) or within
\* f64::EPSILON of 0, and the uniform regime for shapes within
\* DEFAULT_MAX_ULPS steps of 1.
C7_TolerantPointMass ==
    IsBeta /\ call \in {"pdf", "ln_pdf"} =>
        LET a == dist.v.shape_a
            b == dist.v.shape_b
            uniform == /\ Within(a, One, DEFAULT_MAX_ULPS)
                       /\ Within(b, One, DEFAULT_MAX_ULPS)
        IN  /\ InUnit(arg) =>
                /\ a = INF /\ b = INF =>
                      ret = DegenerateValue(Within(arg, Half, DEFAULT_MAX_ULPS))
                /\ a = INF /\ b # INF =>
                      ret = DegenerateValue(Within(arg, One, DEFAULT_MAX_ULPS))
                /\ a # INF /\ b = INF => ret = DegenerateValue(AtZero(arg))
                /\ uniform => ret = F64(IF call = "pdf" THEN One ELSE Zero)
            /\ ~is_nan(arg) =>
                Regime(path) =
                    IF FLt(arg, Zero) \/ FGt(arg, One) THEN "domain"
                    ELSE IF a = INF /\ b = INF THEN "both_inf"
                    ELSE IF a = INF THEN "a_inf"
                    ELSE IF b = INF THEN "b_inf"
                    ELSE IF uniform THEN "uniform"
                    ELSE "general"
            /\ Regime(Beta_pdf(dist.v, arg).path) = Regime(Beta_ln_pdf(dist.v, arg).path)

\* both shapes infinite: pdf is +infinity four steps above 0.5
C7_Witness ==
    /\ IsBeta
    /\ dist.v.shape_a = INF
    /\ dist.v.shape_b = INF
    /\ call = "pdf"
    /\ arg = Near(1, 2, DEFAULT_MAX_ULPS)
    /\ ret = F64(INF)

----------------------------------------------------------------------------
(* C8 *)

\* exactly one of the shapes of the constructed Beta is infinite
OneInfinite == (dist.v.shape_a = INF) # (dist.v.shape_b = INF)

\* p is the input next below x
NextBelow(p, x) ==
    /\ FLt(p, x)
    /\ ~ \E y \in BetaXs : FLt(p, y) /\ FLt(y, x)

\* C8: Beta cdf is 0 for x < 0 and 1 for x >= 1 whatever the shapes; for x
\* in [0,1) it is 0 below 0.5 and 1 from 0.5 on when both shapes are
\* infinite, 0 when only shape_a is, 1 when only shape_b is, and x when both
\* shapes equal 1.  In each of these regimes it is non-decreasing, and its
\* single jump from 0 to 1 is at a point where pdf is +infinity.
C8_BetaCdfSteps ==
    IsBeta /\ call = "cdf" =>
        LET a == dist.v.shape_a
            b == dist.v.shape_b
            degenerate == a = INF \/ b = INF
        IN  /\ FLt(arg, Zero) => ret = F64(Zero)
            /\ FGe(arg, One) => ret = F64(One)
            /\ FLe(Zero, arg) /\ FLt(arg, One) =>
                /\ a = INF /\ b = INF =>
                      ret = F64(IF FLt(arg, Half) THEN Zero ELSE One)
                /\ a = INF /\ b # INF => ret = F64(Zero)
                /\ a # INF /\ b = INF => ret = F64(One)
                /\ a = One /\ b = One => ret = F64(arg)
            /\ (degenerate \/ (a = One /\ b = One)) /\ ~is_nan(arg) =>
                \A x2 \in BetaXs :
                    FLe(arg, x2) => FLe(ret.v, Beta_cdf(dist.v, x2).ret.v)
            /\ degenerate /\ ~is_nan(arg) =>
                /\ ret.v \in {Zero, One}
                /\ \A p \in BetaXs :
                      /\ NextBelow(p, arg)
                      /\ Beta_cdf(dist.v, p).ret.v = Zero
                      /\ ret.v = One
                      => Beta_pdf(dist.v, arg).ret.v = INF

\* only shape_b infinite: cdf has already jumped to 1 at x = 0
C8_Witness ==
    /\ IsBeta
    /\ dist.v.shape_a # INF
    /\ dist.v.shape_b = INF
    /\ call = "cdf"
    /\ arg = Zero
    /\ path = "b_inf"
    /\ ret = F64(One)

----------------------------------------------------------------------------
(* C9 *)

----------------------------------------------------------------------------
(* C10 *)

\* C10: mean() and variance() are None exactly when both shapes are
\* infinite; entropy() is None exactly when at least one is; skewness() is
\* never None.  With exactly one infinite shape: variance = 0, mean = 1 if
\* it is shape_a and 0 if it is shape_b, skewness = -2 resp. 2.  With both
\* infinite skewness = 0.  The mean of a single-infinite regime is the point
\* where pdf is +infinity.
C10_BetaMoments ==
    IsBeta =>
        LET a == dist.v.shape_a
            b == dist.v.shape_b
            both == a = INF /\ b = INF
        IN  /\ call \in {"mean", "variance"} =>
                /\ ret.tag \in {"Some", "None"}
                /\ both <=> ret = None
            /\ call = "entropy" =>
                /\ ret.tag \in {"Some", "None"}
                /\ (a = INF \/ b = INF) <=> ret = None
            /\ call = "skewness" =>
                /\ ret.tag = "Some"
                /\ both => ret = Some(Zero)
                /\ a = INF /\ b # INF => ret = Some(FNeg(Two))
                /\ a # INF /\ b = INF => ret = Some(Two)
            /\ call = "variance" /\ OneInfinite => ret = Some(Zero)
            /\ call = "mean" /\ OneInfinite =>
                /\ ret = Some(IF a = INF THEN One ELSE Zero)
                /\ Beta_pdf(dist.v, ret.v).ret.v = INF

\* only shape_b infinite: the mean is 0
C10_Witness ==
    /\ IsBeta
    /\ dist.v.shape_a # INF
    /\ dist.v.shape_b = INF
    /\ call = "mean"
    /\ ret = Some(Zero)

----------------------------------------------------------------------------
(* C11 *)

\* the height of the Triangular density at its peak: 2 / (max - min)
Peak(self) == FDiv(Two, FSub(self.max, self.min))

\* C11: for every valid Triangular triple (mode == min and mode == max
\* included) the density peaks at the mode with value 2 / (max - min):
\* pdf(mode) = 2 / (max - min), pdf(x) <= 2 / (max - min) for every x,
\* pdf(min) = 0 whenever min < mode, and pdf(max) = 0 whenever mode < max.
C11_TriangularPeak ==
    IsTriangular /\ call = "pdf" /\ arg.k = "fin" =>
        /\ arg = dist.v.mode => ret = F64(Peak(dist.v))
        /\ FLe(ret.v, Peak(dist.v))
        /\ arg = dist.v.min /\ FLt(dist.v.min, dist.v.mode) => ret = F64(Zero)
        /\ arg = dist.v.max /\ FLt(dist.v.mode, dist.v.max) => ret = F64(Zero)

----------------------------------------------------------------------------
(* C12 *)

\* ln_pdf was called in its general regime
LnPdfGeneral == IsBeta /\ call = "ln_pdf" /\ path = "general"

\* C12 as stated: in the general regime of Beta ln_pdf the two boundaries
\* are special-cased independently and symmetrically: at x = 0 the lower
\* term is 0 if shape_a equals 1 and -infinity otherwise (shape_a < 1 as
\* well as shape_a > 1); at x = 1 the upper term is 0 if shape_b equals 1
\* and -infinity otherwise; at any other x the terms are
\* (shape_a - 1) * ln(x) and (shape_b - 1) * ln(1 - x).  Hence ln_pdf(0) is
\* -infinity whenever shape_a # 1, ln_pdf(1) is -infinity whenever
\* shape_b # 1, and ln_pdf is finite at x = 0 when shape_a = 1 and at x = 1
\* when shape_b = 1.
C12_ExactBoundaryTerms ==
    LnPdfGeneral =>
        LET a == dist.v.shape_a
            b == dist.v.shape_b
        IN  /\ Beta_ln_pdf_bb(dist.v, arg) =
                  IF arg = Zero THEN (IF a = One THEN Zero ELSE NEG_INF)
                  ELSE FMul(FSub(a, One), FLn(arg))
            /\ Beta_ln_pdf_cc(dist.v, arg) =
                  IF arg = One THEN (IF b = One THEN Zero ELSE NEG_INF)
                  ELSE FMul(FSub(b, One), FLn(FSub(One, arg)))
            /\ arg = Zero /\ a # One => ret = F64(NEG_INF)
            /\ arg = One /\ b # One => ret = F64(NEG_INF)
            /\ arg = Zero /\ a = One => IsFinite(ret.v)
            /\ arg = One /\ b = One => IsFinite(ret.v)

\* C12 as amended: the same with every equality a near-equality: x counts
\* as 0 within f64::EPSILON of it and as 1 within DEFAULT_MAX_ULPS steps of
\* it, and a shape counts as 1 within DEFAULT_MAX_ULPS steps of it.
C12_TolerantBoundaryTerms ==
    LnPdfGeneral =>
        LET a == dist.v.shape_a
            b == dist.v.shape_b
            a1 == Within(a, One, DEFAULT_MAX_ULPS)
            b1 == Within(b, One, DEFAULT_MAX_ULPS)
            x0 == AtZero(arg)
            x1 == Within(arg, One, DEFAULT_MAX_ULPS)
        IN  /\ Beta_ln_pdf_bb(dist.v, arg) =
                  IF x0 THEN (IF a1 THEN Zero ELSE NEG_INF)
                  ELSE FMul(FSub(a, One), FLn(arg))
            /\ Beta_ln_pdf_cc(dist.v, arg) =
                  IF x1 THEN (IF b1 THEN Zero ELSE NEG_INF)
                  ELSE FMul(FSub(b, One), FLn(FSub(One, arg)))
            /\ x0 /\ ~a1 => ret = F64(NEG_INF)
            /\ x1 /\ ~b1 => ret = F64(NEG_INF)
            /\ x0 /\ a1 => IsFinite(ret.v)
            /\ x1 /\ b1 => IsFinite(ret.v)

\* shape_a < 1 and shape_b = 1: ln_pdf(0) is -infinity, ln_pdf(1) would be
\* finite
C12_Witness ==
    /\ LnPdfGeneral
    /\ dist.v.shape_a = Half
    /\ dist.v.shape_b = One
    /\ arg = Zero
    /\ ret = F64(NEG_INF)
    /\ IsFinite(Beta_ln_pdf(dist.v, One).ret.v)

----------------------------------------------------------------------------
(* C13 *)

\* zero, finite positive, +infinity, or neither
Class(v) ==
    CASE v = Zero -> "zero"
      [] v = INF -> "infinite"
      [] IsFinite(v) /\ Sign(v) > 0 -> "positive"
      [] OTHER -> "other"

\* a shape lies above the log-space threshold
AboveThreshold(self) ==
    \/ FGt(self.shape_a, Q(LogSpaceThreshold, 1))
    \/ FGt(self.shape_b, Q(LogSpaceThreshold, 1))

\* C13: for every valid Beta and every x in [0,1], pdf(x) agrees with
\* exp(ln_pdf(x)), limits included: pdf(x) = 0 exactly when ln_pdf(x) is
\* -infinity and pdf(x) = +infinity exactly when ln_pdf(x) is +infinity.
\* In the general regime pdf takes the log-space path exactly when shape_a
\* or shape_b exceeds 80 and the direct formula otherwise, and both paths
\* classify the same x alike as zero / finite positive / infinite
\* (x = 0 with shape_a < 1 and x = 1 with shape_b < 1 included).
C13_PdfMatchesLnPdf ==
    IsBeta /\ call = "pdf" /\ InUnit(arg) =>
        LET l == Beta_ln_pdf(dist.v, arg).ret.v
        IN  /\ ret.v = Zero <=> l = NEG_INF
            /\ ret.v = INF <=> l = INF
            /\ Class(ret.v) = Class(FExp(l))
            /\ Regime(path) = "general" =>
                  (path = "log_space" <=> AboveThreshold(dist.v))

----------------------------------------------------------------------------
(* C14 *)

----------------------------------------------------------------------------
(* C15 *)

\* C15: Triangular sampling is an exact inverse transform of cdf: for every
\* valid triple and every uniform draw u in [0, 1) the sample s lies in
\* [min, max]; if u < (mode - min)/(max - min) the rising branch is inverted
\* and s <= mode, otherwise the falling branch is inverted and s >= mode;
\* and cdf(s) = u in every case (mode == min, where only the falling branch
\* can be taken, and mode == max included).
C15_SampleInvertsCdf ==
    IsTriangular /\ call = "sample" =>
        LET a == dist.v.min
            b == dist.v.max
            c == dist.v.mode
            s == ret.v
        IN  /\ FLe(a, s) /\ FLe(s, b)
            /\ IF FLt(arg, FDiv(FSub(c, a), FSub(b, a)))
               THEN path = "rising" /\ FLe(s, c)
               ELSE path = "falling" /\ FGe(s, c)
            /\ c = a => path = "falling"
            /\ Triangular_cdf(dist.v, s).ret = Ok(arg)

----------------------------------------------------------------------------
(* C16 *)

\* what capability c with input x returns on the Beta value self
BetaResult(self, c, x) ==
    CASE c = "shape_a" -> Beta_shape_a(self).ret
      [] c = "shape_b" -> Beta_shape_b(self).ret
      [] c = "min" -> Beta_min(self).ret
      [] c = "max" -> Beta_max(self).ret
      [] c = "mean" -> Beta_mean(self).ret
      [] c = "variance" -> Beta_variance(self).ret
      [] c = "entropy" -> Beta_entropy(self).ret
      [] c = "skewness" -> Beta_skewness(self).ret
      [] c = "mode" -> Beta_mode(self).ret
      [] c = "pdf" -> Beta_pdf(self, x).ret
      [] c = "ln_pdf" -> Beta_ln_pdf(self, x).ret
      [] c = "cdf" -> Beta_cdf(self, x).ret

\* what capability c with input x returns on the Triangular value self
TriangularResult(self, c, x) ==
    CASE c = "min" -> Triangular_min(self).ret
      [] c = "max" -> Triangular_max(self).ret
      [] c = "mode" -> Triangular_mode(self).ret
      [] c = "mean" -> Triangular_mean(self).ret
      [] c = "variance" -> Triangular_variance(self).ret
      [] c = "std_dev" -> Triangular_std_dev(self).ret
      [] c = "entropy" -> Triangular_entropy(self).ret
      [] c = "skewness" -> Triangular_skewness(self).ret
      [] c = "median" -> Triangular_median(self).ret
      [] c = "pdf" -> Triangular_pdf(self, x).ret
      [] c = "ln_pdf" -> Triangular_ln_pdf(self, x).ret
      [] c = "cdf" -> Triangular_cdf(self, x).ret

\* the capabilities that draw nothing from outside the value and the input
Pure == {"shape_a", "shape_b", "min", "max", "mode", "mean", "variance",
         "std_dev", "entropy", "skewness", "median", "pdf", "ln_pdf", "cdf"}

\* the value as it was right after construction
Fresh ==
    IF Len(args) = 2 THEN Beta_new(args[1], args[2])
    ELSE Triangular_new(args[1], args[2], args[3])

\* the invariants the constructors establish
ConstructionInvariant(self) ==
    IF self.ty = "Beta"
    THEN /\ ~is_nan(self.shape_a) /\ ~is_nan(self.shape_b)
         /\ FGt(self.shape_a, Zero) /\ FGt(self.shape_b, Zero)
    ELSE /\ self.min.k = "fin" /\ self.max.k = "fin" /\ self.mode.k = "fin"
         /\ FLe(self.min, self.mode) /\ FLe(self.mode, self.max)
         /\ FLt(self.min, self.max)

\* in every state after construction the value and its copy are what the
\* constructor returned, and the last result is what the same call returns
\* right after construction
UnchangedSinceNew ==
    Constructed /\ dist.tag = "Ok" =>
        /\ dist = Fresh
        /\ copy.tag = "Ok" => copy = Fresh
        /\ ConstructionInvariant(dist.v)
        /\ call \in Pure =>
              ret = IF IsBeta THEN BetaResult(Fresh.v, call, arg)
                    ELSE TriangularResult(Fresh.v, call, arg)

\* no step after construction writes the arguments, the value or a copy
\* once taken
NoWrite ==
    Constructed =>
        /\ UNCHANGED <<args, dist>>
        /\ copy.tag = "Ok" => copy' = copy

====
